---- MODULE Spec2Model ----
(***************************************************************************)
(* Sale commitment, stock and price setting and offline replay of the      *)
(* inventory backend (src/backend/routers/pos.py, sales.py, inventory.py,  *)
(* products.py, sync.py).                                                  *)
(*                                                                         *)
(* The store is a relational database reached through one SQLAlchemy       *)
(* session per request (database.py get_db, autoflush=False).  The model   *)
(* is the PostgreSQL deployment database.py names for production, at READ  *)
(* COMMITTED: a transaction's writes are invisible to the others until it  *)
(* commits, SELECT ... FOR UPDATE (with_for_update) and UPDATE take the    *)
(* row's exclusive lock and wait while another transaction holds it, and   *)
(* commit or rollback releases every lock of the transaction.  A session   *)
(* keeps the rows it has loaded in its identity map: a later query for a   *)
(* row already loaded returns the object in memory, not the row's new      *)
(* value.  Several worker processes serve requests, so the steps of two    *)
(* requests interleave at the database statements.                         *)
(*                                                                         *)
(* Left out: PostgreSQL's deadlock detector (two transactions waiting for  *)
(* each other stay so) and storage failures other than at the write of a   *)
(* live sale and at the INSERT of a replayed sale the database rejects.    *)
(***************************************************************************)
EXTENDS Integers, Sequences, FiniteSets, TLC

(* ------------------------------ bounds -------------------------------- *)
NProcs == 2
NProducts == 2
MaxStock == 1
MaxQty == 1
MaxLines == 2
MaxRequests == 3
MaxQueue == 2

Procs == 1..NProcs
\* the products of the catalog; each has its inventory row
Products == 1..NProducts
\* a product id no Product row has
MissingProduct == NProducts + 1
\* Product.price as the catalog has it at the start: a positive number per
\* product
Price0(prod) == prod + 2
\* the Product rows at the start
Catalog == [prod \in Products |-> Price0(prod)]

\* the bearer token of a request: one that jwt.decode accepts, one it rejects
Tokens == {"valid", "expired"}

Lines == [product_id : Products \cup {MissingProduct}, quantity : 1..MaxQty]
ItemLists == UNION {[1..n -> Lines] : n \in 1..MaxLines}

\* what clients put in the queue: a transaction type and a JSON payload, here
\* the document {"items": [...]} (a sale) or one of another type
Payloads == [items : ItemLists \cup {<<>>}]
Enqueued ==
    [transaction_type : {"sale"}, payload : Payloads]
    \cup [transaction_type : {"inventory_update"}, payload : [items : {<<>>}]]

VARIABLES
    quantity,    \* Inventory.quantity of each product, as committed
    sales,       \* the committed Sale rows, each with its SaleItem rows
    nextSaleId,  \* the sales.id sequence
    queue,       \* the committed SyncQueue rows, in id order
    lock,        \* the holder of each inventory row's lock, 0 when free
    w,           \* each worker's request in progress: its session and locals
    nreq,        \* requests started so far
    stock0,      \* history: the quantities at the start
    price        \* Product.price of each product, as committed

vars == <<quantity, sales, nextSaleId, queue, lock, w, nreq, stock0, price>>

\* the committed price of a product
Price(prod) == price[prod]

\* a reply: the status code, the reason, the tally of a replay pass; at is
\* history, the line of the request at which a sale failed
NoResult == [code |-> 0, detail |-> "none", processed |-> 0, failed |-> 0, at |-> 0]

\* a worker between requests: a fresh session, nothing loaded
Fresh ==
    [pc |-> "idle", op |-> "none", items |-> <<>>, i |-> 0,
     loaded |-> {}, inv |-> [prod \in Products |-> 0],
     data |-> <<>>, total |-> 0, sale_id |-> 0, restore |-> FALSE,
     pending |-> <<>>, k |-> 0, qmem |-> <<>>, dirty |-> {}, newsales |-> <<>>,
     processed |-> 0, failed |-> 0, verified |-> FALSE,
     prices |-> [prod \in Products |-> 0],
     was |-> 0,
     result |-> NoResult]

Init ==
    /\ quantity \in [Products -> 0..MaxStock]
    /\ sales = {}
    /\ nextSaleId = 1
    /\ queue = <<>>
    /\ lock = [prod \in Products |-> 0]
    /\ w = [p \in Procs |-> Fresh]
    /\ nreq = 0
    /\ stock0 = quantity
    /\ price = Catalog

(* ----------------------------- helpers -------------------------------- *)

\* the stock check of one line
Insufficient(available, requested) == available < requested

\* (faulty variant) a subtotal that is not the product of price and quantity
SubtotalAdds(unit_price, qty) == unit_price + qty

\* a line's subtotal
Subtotal(unit_price, qty) == unit_price * qty

\* the session's Inventory object of prod: loaded from the committed row on
\* the first query, returned from the identity map afterwards
LoadInv(wr, prod) ==
    IF prod \in wr.loaded THEN wr
    ELSE [wr EXCEPT !.loaded = @ \cup {prod}, !.inv[prod] = quantity[prod]]

\* (faulty variant) the row locks outlive the transaction
ReleasedNever(p) == lock

\* the end of a transaction releases its row locks
Released(p) == [prod \in Products |-> IF lock[prod] = p THEN 0 ELSE lock[prod]]

\* the request returns: the session is closed, the reply is kept
Reply(code, detail) ==
    [Fresh EXCEPT !.result = [NoResult EXCEPT !.code = code, !.detail = detail]]

\* the reply of a sale that failed at line i
Refused(code, detail, i) ==
    [Fresh EXCEPT !.result = [NoResult EXCEPT !.code = code, !.detail = detail, !.at = i]]

\* a worker that has just received a sale request; with no lines create_sale
\* has no turn of its loop to make
Started(op, items) ==
    [Fresh EXCEPT !.pc = IF op = "pos_sale" THEN "pos_line"
                         ELSE IF items = <<>> THEN "create_flush" ELSE "create_line",
                  !.op = op, !.items = items, !.i = 1]

\* item_data["inventory"].quantity -= item_data["quantity"], line by line on
\* the session's objects
RECURSIVE Deduct(_, _)
Deduct(inv, data) ==
    IF data = <<>> THEN inv
    ELSE Deduct([inv EXCEPT ![data[1].product_id] = @ - data[1].quantity], Tail(data))

\* the session's Product object of prod: loaded from the committed row on
\* the first query, returned from the identity map afterwards
LoadProduct(wr, prod) ==
    IF wr.prices[prod] # 0 THEN wr
    ELSE [wr EXCEPT !.prices[prod] = Price(prod)]

\* one sale_items_data entry, at the price of the session's Product object
ItemRead(wr, line) ==
    [product_id |-> line.product_id, quantity |-> line.quantity,
     unit_price |-> LoadProduct(wr, line.product_id).prices[line.product_id],
     subtotal |-> Subtotal(LoadProduct(wr, line.product_id).prices[line.product_id],
                           line.quantity)]

\* one sale_items_data entry as a session that has not loaded the product
\* builds it
ItemData(line) == ItemRead(Fresh, line)

\* the rows a flush updates: the loaded Inventory objects whose quantity changed
DirtyProducts(data) == {data[j].product_id : j \in 1..Len(data)}

\* Depends(verify_token): the token decodes and names a subject
verify_token(token) == token = "valid"

\* the handler runs with the payload of the verified token
Verified(wr) == [wr EXCEPT !.verified = TRUE]

\* (faulty variant) a schema that lets an empty list of items through
EmptyBodyPasses(items) == FALSE

\* SaleCreate.items has min_length=1: the body is refused before the handler
EmptyBody(items) == items = <<>>

\* a request is handed to the first idle worker (the workers are alike)
Accepts(p) ==
    /\ w[p].pc = "idle"
    /\ \A q \in Procs : q < p => w[q].pc # "idle"
    /\ nreq < MaxRequests

(* ------------------------- POST /api/pos/sale ------------------------- *)

\* the handler takes no token
pos_sale(p, items) ==
    /\ Accepts(p)
    /\ nreq' = nreq + 1
    /\ w' = [w EXCEPT ![p] =
               IF EmptyBody(items)
               THEN Reply(422, "List should have at least 1 item")
               ELSE IF items = <<>>
               THEN Reply(400, "Sale must contain at least one item")
               ELSE Started("pos_sale", items)]
    /\ UNCHANGED <<quantity, sales, nextSaleId, queue, lock, stock0, price>>

\* (faulty variant) a turn of the loop locks every inventory row
pos_line_locks_all(p) ==
    /\ w[p].pc = "pos_line"
    /\ LET line == w[p].items[w[p].i]
           prod == line.product_id
       IN IF prod \notin Products
          THEN \* 404, rolled back by the handler
               /\ w' = [w EXCEPT ![p] = Refused(404, "ProductNotFound", w[p].i)]
               /\ lock' = Released(p)
          ELSE /\ \A x \in Products : lock[x] \in {0, p}
               /\ LET wr == LoadInv(LoadProduct(w[p], prod), prod)
                  IN IF Insufficient(wr.inv[prod], line.quantity)
                     THEN /\ w' = [w EXCEPT ![p] = Refused(400, "InsufficientStock", w[p].i)]
                          /\ lock' = Released(p)
                     ELSE /\ w' = [w EXCEPT ![p] =
                                     [wr EXCEPT !.data = Append(@, ItemRead(wr, line)),
                                                !.total = @ + ItemRead(wr, line).subtotal,
                                                !.i = @ + 1,
                                                !.pc = IF w[p].i = Len(w[p].items)
                                                       THEN "pos_commit" ELSE "pos_line"]]
                          /\ lock' = [x \in Products |-> p]
    /\ UNCHANGED <<quantity, sales, nextSaleId, queue, nreq, stock0, price>>

\* one turn of the validation loop: the product, its inventory row under
\* lock, the stock check
pos_line(p) ==
    /\ w[p].pc = "pos_line"
    /\ LET line == w[p].items[w[p].i]
           prod == line.product_id
       IN IF prod \notin Products
          THEN \* 404, rolled back by the handler
               /\ w' = [w EXCEPT ![p] = Refused(404, "ProductNotFound", w[p].i)]
               /\ lock' = Released(p)
          ELSE /\ lock[prod] \in {0, p}
               /\ LET wr == LoadInv(LoadProduct(w[p], prod), prod)
                  IN IF Insufficient(wr.inv[prod], line.quantity)
                     THEN /\ w' = [w EXCEPT ![p] = Refused(400, "InsufficientStock", w[p].i)]
                          /\ lock' = Released(p)
                     ELSE /\ w' = [w EXCEPT ![p] =
                                     [wr EXCEPT !.data = Append(@, ItemRead(wr, line)),
                                                !.total = @ + ItemRead(wr, line).subtotal,
                                                !.i = @ + 1,
                                                !.pc = IF w[p].i = Len(w[p].items)
                                                       THEN "pos_commit" ELSE "pos_line"]]
                          /\ lock' = [lock EXCEPT ![prod] = p]
    /\ UNCHANGED <<quantity, sales, nextSaleId, queue, nreq, stock0, price>>

\* total_amount as the loop adds it up
RECURSIVE SoldTotal(_)
SoldTotal(items) ==
    IF items = <<>> THEN 0
    ELSE ItemData(items[1]).subtotal + SoldTotal(Tail(items))

\* datetime.utcnow, the default of Sale.sale_date, taken when the row is
\* inserted
Utcnow == "utcnow"

\* the texts PostgreSQL reads as a timestamp
Timestamps == {"2024-05-01T10:00:00"}

\* (faulty variant) the payload's timestamp is not used
SaleDateNow(payload) == Utcnow

\* sale_date=payload.get("sale_date") or None, None leaving the column to its
\* default
SaleDate(payload) ==
    IF "sale_date" \in DOMAIN payload /\ payload.sale_date # ""
    THEN payload.sale_date
    ELSE Utcnow

\* the INSERT of the Sale row goes through: its sale_date is a timestamp
Storable(sale_date) == sale_date \in Timestamps \cup {Utcnow}

\* the Sale and SaleItem rows as the handler builds them; a live sale names
\* no sale_date
\* (src is history, not a column: the queue entry a replayed sale came from)
NewSale(wr, id, src) ==
    [id |-> id, total_amount |-> wr.total, src |-> src,
     sale_date |-> IF src = 0 THEN Utcnow ELSE SaleDate(queue[src].payload),
     items |-> [j \in 1..Len(wr.data) |->
                  [product_id |-> wr.data[j].product_id,
                   quantity |-> wr.data[j].quantity,
                   unit_price |-> wr.data[j].unit_price,
                   subtotal |-> wr.data[j].subtotal]]]

\* the committed quantities after the session's objects are written
Written(inv, dirty) ==
    [prod \in Products |-> IF prod \in dirty THEN inv[prod] ELSE quantity[prod]]

\* the sale, its items and the deducted quantities become durable together
pos_commit(p) ==
    /\ w[p].pc = "pos_commit"
    /\ sales' = sales \cup {NewSale(w[p], nextSaleId, 0)}
    /\ nextSaleId' = nextSaleId + 1
    /\ quantity' = Written(Deduct(w[p].inv, w[p].data), DirtyProducts(w[p].data))
    /\ lock' = Released(p)
    /\ w' = [w EXCEPT ![p] = Reply(201, "created")]
    /\ UNCHANGED <<queue, nreq, stock0, price>>

\* (faulty variant) the handler of the failure commits what the session holds
pos_storage_failure_commits(p) ==
    /\ w[p].pc = "pos_commit"
    /\ quantity' = Written(Deduct(w[p].inv, w[p].data), DirtyProducts(w[p].data))
    /\ lock' = Released(p)
    /\ w' = [w EXCEPT ![p] = Reply(500, "StorageFailure")]
    /\ UNCHANGED <<sales, nextSaleId, queue, nreq, stock0, price>>

\* the database fails at the flush or the commit: rollback, 500
pos_storage_failure(p) ==
    /\ w[p].pc = "pos_commit"
    /\ lock' = Released(p)
    /\ w' = [w EXCEPT ![p] = Reply(500, "StorageFailure")]
    /\ UNCHANGED <<quantity, sales, nextSaleId, queue, nreq, stock0, price>>

(* --------------------------- POST /api/sales -------------------------- *)

create_sale(p, items, token) ==
    /\ Accepts(p)
    /\ nreq' = nreq + 1
    /\ w' = [w EXCEPT ![p] =
               IF ~verify_token(token)
               THEN Reply(401, "Invalid or expired token")
               ELSE IF EmptyBody(items)
               THEN Verified(Reply(422, "List should have at least 1 item"))
               ELSE Verified(Started("create_sale", items))]
    /\ UNCHANGED <<quantity, sales, nextSaleId, queue, lock, stock0, price>>

\* one turn of the validation loop: the inventory row is read without a lock
create_line(p) ==
    /\ w[p].pc = "create_line"
    /\ LET line == w[p].items[w[p].i]
           prod == line.product_id
       IN IF prod \notin Products
          THEN w' = [w EXCEPT ![p] = Refused(404, "ProductNotFound", w[p].i)]
          ELSE LET wr == LoadInv(LoadProduct(w[p], prod), prod)
               IN IF Insufficient(wr.inv[prod], line.quantity)
                  THEN w' = [w EXCEPT ![p] = Refused(400, "InsufficientStock", w[p].i)]
                  ELSE w' = [w EXCEPT ![p] =
                               [wr EXCEPT !.data = Append(@, ItemRead(wr, line)),
                                          !.total = @ + ItemRead(wr, line).subtotal,
                                          !.i = @ + 1,
                                          !.pc = IF w[p].i = Len(w[p].items)
                                                 THEN "create_flush" ELSE "create_line"]]
    /\ UNCHANGED <<quantity, sales, nextSaleId, queue, lock, nreq, stock0, price>>

\* the rows the flush at commit has still to update, in primary-key order:
\* each UPDATE takes the row's lock and waits while another holds it
ToLock(p, dirty) == {prod \in dirty : lock[prod] # p}
FirstOf(S) == CHOOSE x \in S : \A y \in S : x <= y

\* an UPDATE of the flush that is not the last one
flush_update(p) ==
    /\ w[p].pc \in {"create_flush", "del_flush"}
    /\ Cardinality(ToLock(p, DirtyProducts(w[p].data))) > 1
    /\ lock[FirstOf(ToLock(p, DirtyProducts(w[p].data)))] = 0
    /\ lock' = [lock EXCEPT ![FirstOf(ToLock(p, DirtyProducts(w[p].data)))] = p]
    /\ UNCHANGED <<quantity, sales, nextSaleId, queue, w, nreq, stock0, price>>

\* the last UPDATE can be made: nothing more can make the flush wait
CanFinishFlush(p) ==
    LET rest == ToLock(p, DirtyProducts(w[p].data))
    IN Cardinality(rest) <= 1 /\ \A prod \in rest : lock[prod] = 0

create_commit(p) ==
    /\ w[p].pc = "create_flush"
    /\ CanFinishFlush(p)
    /\ sales' = sales \cup {NewSale(w[p], nextSaleId, 0)}
    /\ nextSaleId' = nextSaleId + 1
    /\ quantity' = Written(Deduct(w[p].inv, w[p].data), DirtyProducts(w[p].data))
    /\ lock' = Released(p)
    /\ w' = [w EXCEPT ![p] = Reply(201, "created")]
    /\ UNCHANGED <<queue, nreq, stock0, price>>

\* (faulty variant) the failure is swallowed and the sale is answered as
\* created
create_storage_failure_swallowed(p) ==
    /\ w[p].pc = "create_flush"
    /\ lock' = Released(p)
    /\ w' = [w EXCEPT ![p] = Reply(201, "created")]
    /\ UNCHANGED <<quantity, sales, nextSaleId, queue, nreq, stock0, price>>

\* the database fails at the flush or the commit: the exception leaves the
\* handler, the session is closed and its transaction rolled back
create_storage_failure(p) ==
    /\ w[p].pc = "create_flush"
    /\ lock' = Released(p)
    /\ w' = [w EXCEPT ![p] = Reply(500, "StorageFailure")]
    /\ UNCHANGED <<quantity, sales, nextSaleId, queue, nreq, stock0, price>>

(* ---------------------- DELETE /api/sales/{sale_id} ------------------- *)

SaleIds == {s.id : s \in sales}
SaleById(id) == CHOOSE s \in sales : s.id = id

delete_sale(p, sale_id, restore_inventory, token) ==
    /\ Accepts(p)
    /\ nreq' = nreq + 1
    /\ IF ~verify_token(token)
       THEN w' = [w EXCEPT ![p] = Reply(401, "Invalid or expired token")]
       ELSE IF sale_id \notin SaleIds
       THEN w' = [w EXCEPT ![p] = Verified(Reply(404, "SaleNotFound"))]
       ELSE w' = [w EXCEPT ![p] =
                    [Fresh EXCEPT !.verified = TRUE, !.pc = IF restore_inventory THEN "del_line" ELSE "del_flush",
                                  !.op = "delete_sale",
                                  !.items = SaleById(sale_id).items, !.i = 1,
                                  !.sale_id = sale_id, !.restore = restore_inventory]]
    /\ UNCHANGED <<quantity, sales, nextSaleId, queue, lock, stock0, price>>

\* one turn of the restore loop: the row is read without a lock and the
\* line's quantity added to the session's object
del_line(p) ==
    /\ w[p].pc = "del_line"
    /\ LET item == w[p].items[w[p].i]
           wr == LoadInv(w[p], item.product_id)
       IN w' = [w EXCEPT ![p] =
                  [wr EXCEPT !.inv[item.product_id] = @ + item.quantity,
                             !.data = Append(@, item),
                             !.i = @ + 1,
                             !.pc = IF w[p].i = Len(w[p].items)
                                    THEN "del_flush" ELSE "del_line"]]
    /\ UNCHANGED <<quantity, sales, nextSaleId, queue, lock, nreq, stock0, price>>

\* the restored quantities are written and the sale goes with its items
del_commit(p) ==
    /\ w[p].pc = "del_flush"
    /\ CanFinishFlush(p)
    /\ quantity' = Written(w[p].inv, DirtyProducts(w[p].data))
    /\ sales' = {s \in sales : s.id # w[p].sale_id}
    /\ lock' = Released(p)
    /\ w' = [w EXCEPT ![p] = Reply(200, "deleted")]
    /\ UNCHANGED <<nextSaleId, queue, nreq, stock0, price>>

(* ------------- PUT /api/inventory/{id}, POST .../adjust --------------- *)

\* the session holds the row, read without a lock, with its new quantity;
\* a quantity equal to the one read is no change and writes nothing
\* (was is history: the quantity read)
Holding(op, prod, old, new) ==
    [Fresh EXCEPT !.verified = TRUE, !.pc = "inv_flush", !.op = op,
                  !.loaded = {prod}, !.inv[prod] = new, !.was = old,
                  !.dirty = IF new = old THEN {} ELSE {prod}]

\* the quantity is set to the value of the request
update_inventory(p, product_id, new_quantity, token) ==
    /\ Accepts(p)
    /\ nreq' = nreq + 1
    /\ w' = [w EXCEPT ![p] =
               IF ~verify_token(token)
               THEN Reply(401, "Invalid or expired token")
               ELSE IF product_id \notin Products
               THEN Verified(Reply(404, "InventoryNotFound"))
               ELSE Holding("update_inventory", product_id,
                            quantity[product_id], new_quantity)]
    /\ UNCHANGED <<quantity, sales, nextSaleId, queue, lock, stock0, price>>

\* the quantity read is moved by the adjustment, unless it would go below 0
adjust_inventory(p, product_id, adjustment, token) ==
    /\ Accepts(p)
    /\ nreq' = nreq + 1
    /\ w' = [w EXCEPT ![p] =
               IF ~verify_token(token)
               THEN Reply(401, "Invalid or expired token")
               ELSE IF product_id \notin Products
               THEN Verified(Reply(404, "InventoryNotFound"))
               ELSE IF quantity[product_id] + adjustment < 0
               THEN Verified(Reply(400, "NegativeInventory"))
               ELSE Holding("adjust_inventory", product_id,
                            quantity[product_id], quantity[product_id] + adjustment)]
    /\ UNCHANGED <<quantity, sales, nextSaleId, queue, lock, stock0, price>>

\* db.commit(): the UPDATE of the flush waits for the row's lock, writes the
\* session's value and the transaction ends
inv_commit(p) ==
    /\ w[p].pc = "inv_flush"
    /\ \A prod \in w[p].dirty : lock[prod] = 0
    /\ quantity' = Written(w[p].inv, w[p].dirty)
    /\ w' = [w EXCEPT ![p] = Reply(200, "updated")]
    /\ UNCHANGED <<sales, nextSaleId, queue, lock, nreq, stock0, price>>

(* ------------------------ PUT /api/products/{id} ---------------------- *)

\* (faulty variant) the new price is written into the sale items as well
update_product_reprices(p, product_id, new_price, token) ==
    /\ Accepts(p)
    /\ nreq' = nreq + 1
    /\ product_id \in Products /\ new_price > 0 /\ verify_token(token)
    /\ price' = [price EXCEPT ![product_id] = new_price]
    /\ sales' = {[s EXCEPT !.items =
                      [j \in DOMAIN s.items |->
                         IF s.items[j].product_id = product_id
                         THEN [s.items[j] EXCEPT !.unit_price = new_price,
                                                 !.subtotal = new_price * s.items[j].quantity]
                         ELSE s.items[j]]] : s \in sales}
    /\ w' = [w EXCEPT ![p] = Verified(Reply(200, "updated"))]
    /\ UNCHANGED <<quantity, nextSaleId, queue, lock, stock0>>

\* the handler reads the Product row, sets the fields of the body on it and
\* commits; ProductUpdate.price is gt=0
update_product(p, product_id, new_price, token) ==
    /\ Accepts(p)
    /\ nreq' = nreq + 1
    /\ IF ~verify_token(token)
       THEN /\ w' = [w EXCEPT ![p] = Reply(401, "Invalid or expired token")]
            /\ price' = price
       ELSE IF new_price <= 0
       THEN /\ w' = [w EXCEPT ![p] = Verified(Reply(422, "Input should be greater than 0"))]
            /\ price' = price
       ELSE IF product_id \notin Products
       THEN /\ w' = [w EXCEPT ![p] = Verified(Reply(404, "ProductNotFound"))]
            /\ price' = price
       ELSE /\ w' = [w EXCEPT ![p] = Verified(Reply(200, "updated"))]
            /\ price' = [price EXCEPT ![product_id] = new_price]
    /\ UNCHANGED <<quantity, sales, nextSaleId, queue, lock, stock0>>

(* -------------------------- POST /api/sync/queue ---------------------- *)

\* created_at is the clock's reading at the insert: the reading of the
\* entry before it (tick 0) or a later one (tick 1)
LastCreated == IF queue = <<>> THEN 0 ELSE queue[Len(queue)].created_at
Ticks == IF queue = <<>> THEN {1} ELSE {0, 1}

\* (faulty variant) a new row that is not pending
NewEntryFailed(sync_item, created_at) ==
    [transaction_type |-> sync_item.transaction_type,
     payload |-> sync_item.payload,
     status |-> "failed",
     created_at |-> created_at,
     synced_at |-> 0,
     error_message |-> "not replayed"]

\* a new SyncQueue row
NewEntry(sync_item, created_at) ==
    [transaction_type |-> sync_item.transaction_type,
     payload |-> sync_item.payload,
     status |-> "pending",
     created_at |-> created_at,
     synced_at |-> 0,
     error_message |-> ""]

\* (faulty variant) the new row is put in front of the queue
add_to_sync_queue_first(p, sync_item, tick, token) ==
    /\ Accepts(p)
    /\ Len(queue) < MaxQueue
    /\ nreq' = nreq + 1
    /\ IF ~verify_token(token)
       THEN /\ queue' = queue
            /\ w' = [w EXCEPT ![p] = Reply(401, "Invalid or expired token")]
       ELSE /\ queue' = <<NewEntry(sync_item, LastCreated + tick)>> \o queue
            /\ w' = [w EXCEPT ![p] = Verified(Reply(201, "queued"))]
    /\ UNCHANGED <<quantity, sales, nextSaleId, lock, stock0, price>>

add_to_sync_queue(p, sync_item, tick, token) ==
    /\ Accepts(p)
    /\ Len(queue) < MaxQueue
    /\ nreq' = nreq + 1
    /\ IF ~verify_token(token)
       THEN /\ queue' = queue
            /\ w' = [w EXCEPT ![p] = Reply(401, "Invalid or expired token")]
       ELSE /\ queue' = Append(queue, NewEntry(sync_item, LastCreated + tick))
            /\ w' = [w EXCEPT ![p] = Verified(Reply(201, "queued"))]
    /\ UNCHANGED <<quantity, sales, nextSaleId, lock, stock0, price>>

(* ------------------------- POST /api/sync/process --------------------- *)

PendingIds == {e \in 1..Len(queue) : queue[e].status = "pending"}

\* (faulty variant) the pending entries, latest first
PendingOrdersDesc ==
    {o \in [1..Cardinality(PendingIds) -> PendingIds] :
        /\ \A a, b \in DOMAIN o : a # b => o[a] # o[b]
        /\ \A a, b \in DOMAIN o : a < b => queue[o[a]].created_at >= queue[o[b]].created_at}

\* the pending entries ORDER BY created_at: any order of equal readings
PendingOrders ==
    {o \in [1..Cardinality(PendingIds) -> PendingIds] :
        /\ \A a, b \in DOMAIN o : a # b => o[a] # o[b]
        /\ \A a, b \in DOMAIN o : a < b => queue[o[a]].created_at <= queue[o[b]].created_at}

\* json.loads(payload) returns: the text is JSON
Parses(payload) == "text" \notin DOMAIN payload

\* json.loads(payload).get("items", [])
PayloadItems(payload) == IF "items" \in DOMAIN payload THEN payload.items ELSE <<>>

\* (faulty variant) no line is taken for invalid
InvalidItemNever(line) == FALSE

\* not product_id or not quantity: the key is absent, or its value is 0
InvalidItem(line) == line.product_id = 0 \/ line.quantity = 0

\* a pending item as the pass loads it; sat and view are history: whether
\* the item's lines could all be served when its turn came, and the
\* quantities the pass then went by
Unprocessed ==
    [status |-> "pending", synced_at |-> 0, error_message |-> "",
     sat |-> FALSE, view |-> [prod \in Products |-> 0]]

process_sync_queue(p, token) ==
    /\ Accepts(p)
    /\ nreq' = nreq + 1
    /\ IF ~verify_token(token)
       THEN w' = [w EXCEPT ![p] = Reply(401, "Invalid or expired token")]
       ELSE IF PendingIds = {}
       THEN w' = [w EXCEPT ![p] = Verified(Reply(200, "No pending items to sync"))]
       ELSE \E order \in PendingOrders :
                w' = [w EXCEPT ![p] =
                    [Fresh EXCEPT !.verified = TRUE, !.pc = "sync_line", !.op = "process_sync_queue",
                                  !.pending = order, !.k = 1, !.i = 1,
                                  !.items = PayloadItems(queue[order[1]].payload),
                                  !.qmem = [j \in DOMAIN order |-> Unprocessed]]]
    /\ UNCHANGED <<quantity, sales, nextSaleId, queue, lock, stock0, price>>

\* the quantities a session goes by: its own object where it has loaded the
\* row, the committed row otherwise
View(wr) == [prod \in Products |-> IF prod \in wr.loaded THEN wr.inv[prod] ELSE quantity[prod]]

\* units of prod in a list of lines
RECURSIVE SoldOf(_, _)
SoldOf(items, prod) ==
    IF items = <<>> THEN 0
    ELSE (IF items[1].product_id = prod THEN items[1].quantity ELSE 0)
         + SoldOf(Tail(items), prod)

\* the lines can all be served from the quantities in view
Satisfiable(items, view) ==
    /\ items # <<>>
    /\ \A j \in DOMAIN items : items[j].product_id \in Products /\ items[j].quantity > 0
    /\ \A prod \in Products : SoldOf(items, prod) <= view[prod]

\* history of the item now decided
Noted(wr, type) ==
    [wr EXCEPT !.qmem[wr.k].sat = type = "sale" /\ Satisfiable(wr.items, View(wr)),
               !.qmem[wr.k].view = View(wr)]

\* the loop goes to the next pending item, or to the commit after the last
NextItem(wr) ==
    IF wr.k = Len(wr.pending)
    THEN [wr EXCEPT !.pc = "sync_commit", !.items = <<>>, !.i = 0, !.data = <<>>,
                    !.total = 0]
    ELSE [wr EXCEPT !.k = @ + 1, !.i = 1, !.data = <<>>, !.total = 0,
                    !.items = PayloadItems(queue[wr.pending[wr.k + 1]].payload)]

\* (faulty variant) the first failure ends the loop
ItemFailedStops(wr, message) ==
    [wr EXCEPT !.qmem[wr.k].status = "failed",
               !.qmem[wr.k].error_message = message,
               !.failed = @ + 1,
               !.pc = "sync_commit", !.items = <<>>, !.i = 0, !.data = <<>>, !.total = 0]

\* except Exception: the item is marked failed in the session and counted
ItemFailed(wr, message) ==
    NextItem([wr EXCEPT !.qmem[wr.k].status = "failed",
                        !.qmem[wr.k].error_message = message,
                        !.failed = @ + 1])

\* (faulty variant) the item is marked synced and its sale added, the
\* quantities left as they were
ItemSyncedKeepsStock(wr) ==
    NextItem([wr EXCEPT !.newsales = Append(@, NewSale(wr, 0, wr.pending[wr.k])),
                        !.qmem[wr.k].status = "synced",
                        !.qmem[wr.k].synced_at = 1,
                        !.processed = @ + 1])

\* the sale is added to the session, the quantities are deducted on the
\* session's objects and the item is marked synced
ItemSynced(wr) ==
    NextItem([wr EXCEPT !.newsales = Append(@, NewSale(wr, 0, wr.pending[wr.k])),
                        !.inv = Deduct(wr.inv, wr.data),
                        !.dirty = @ \cup DirtyProducts(wr.data),
                        !.qmem[wr.k].status = "synced",
                        !.qmem[wr.k].synced_at = 1,
                        !.processed = @ + 1])

\* (faulty variant) every entry is replayed as a sale
KnownTypeAny(type) == TRUE

\* if item.transaction_type == "sale"
KnownType(type) == type = "sale"

\* db.flush() of a Sale whose sale_date the database cannot read: the
\* statement fails and the session rolls its transaction back, which undoes
\* what the pass has flushed and frees its locks; the session refuses every
\* later statement, so the remaining items fail without reaching the
\* database and db.commit() raises: the request ends in a server error
FlushFails(p) ==
    /\ w' = [w EXCEPT ![p] = Reply(500, "PendingRollbackError")]
    /\ lock' = Released(p)

\* one turn of _process_sale_sync's validation loop for the current item, or
\* the item's failure before the loop
sync_line(p) ==
    /\ w[p].pc = "sync_line"
    /\ LET entry == queue[w[p].pending[w[p].k]]
       IN IF ~KnownType(entry.transaction_type)
          THEN /\ w' = [w EXCEPT ![p] =
                          ItemFailed(Noted(w[p], entry.transaction_type),
                                     "Unknown transaction type: " \o entry.transaction_type)]
               /\ lock' = lock
          ELSE IF ~Parses(entry.payload)
          THEN /\ w' = [w EXCEPT ![p] = ItemFailed(Noted(w[p], "unparsed"),
                                                   "Expecting value")]
               /\ lock' = lock
          ELSE IF w[p].items = <<>>
          THEN /\ w' = [w EXCEPT ![p] = ItemFailed(Noted(w[p], "sale"),
                                                   "Sale must contain at least one item")]
               /\ lock' = lock
          ELSE LET line == w[p].items[w[p].i]
                   prod == line.product_id
               IN IF InvalidItem(line)
                  THEN /\ w' = [w EXCEPT ![p] = ItemFailed(Noted(w[p], "sale"),
                                                           "Invalid sale item format")]
                       /\ lock' = lock
                  ELSE IF prod \notin Products
                  THEN /\ w' = [w EXCEPT ![p] = ItemFailed(Noted(w[p], "sale"),
                                                           "Product not found")]
                       /\ lock' = lock
                  ELSE /\ lock[prod] \in {0, p}
                       /\ LET wr == LoadInv(LoadProduct(w[p], prod), prod)
                              wd == [wr EXCEPT !.data = Append(@, ItemRead(wr, line)),
                                               !.total = @ + ItemRead(wr, line).subtotal,
                                               !.i = @ + 1]
                          IN IF Insufficient(wr.inv[prod], line.quantity)
                             THEN /\ w' = [w EXCEPT ![p] = ItemFailed(Noted(wr, "sale"),
                                                                      "Insufficient stock")]
                                  /\ lock' = [lock EXCEPT ![prod] = p]
                             ELSE IF w[p].i < Len(w[p].items)
                             THEN /\ w' = [w EXCEPT ![p] = wd]
                                  /\ lock' = [lock EXCEPT ![prod] = p]
                             ELSE IF Storable(SaleDate(entry.payload))
                             THEN /\ w' = [w EXCEPT ![p] = ItemSynced(Noted(wd, "sale"))]
                                  /\ lock' = [lock EXCEPT ![prod] = p]
                             ELSE FlushFails(p)
    /\ UNCHANGED <<quantity, sales, nextSaleId, queue, nreq, stock0, price>>

\* the Sale rows of the pass with the ids the sequence gave them
RECURSIVE Numbered(_, _)
Numbered(newsales, id) ==
    IF newsales = <<>> THEN {}
    ELSE {[newsales[1] EXCEPT !.id = id]} \cup Numbered(Tail(newsales), id + 1)

\* the single commit of the pass writes everything the session holds; the
\* UPDATE of a queue row sets the columns the pass has assigned: status, and
\* synced_at or error_message
sync_commit(p) ==
    /\ w[p].pc = "sync_commit"
    /\ quantity' = Written(w[p].inv, w[p].dirty)
    /\ sales' = sales \cup Numbered(w[p].newsales, nextSaleId)
    /\ nextSaleId' = nextSaleId + Len(w[p].newsales)
    /\ queue' = [e \in DOMAIN queue |->
                   IF \E j \in DOMAIN w[p].pending : w[p].pending[j] = e
                   THEN LET j == CHOOSE j \in DOMAIN w[p].pending : w[p].pending[j] = e
                        IN [queue[e] EXCEPT
                              !.status = w[p].qmem[j].status,
                              !.synced_at = IF w[p].qmem[j].status = "synced"
                                            THEN w[p].qmem[j].synced_at ELSE @,
                              !.error_message = IF w[p].qmem[j].status = "failed"
                                                THEN w[p].qmem[j].error_message ELSE @]
                   ELSE queue[e]]
    /\ lock' = Released(p)
    /\ w' = [w EXCEPT ![p] =
               [Fresh EXCEPT !.result = [code |-> 200, detail |-> "Sync complete",
                                         processed |-> w[p].processed,
                                         failed |-> w[p].failed, at |-> 0]]]
    /\ UNCHANGED <<nreq, stock0, price>>

Next ==
    \E p \in Procs :
        \/ \E items \in ItemLists \cup {<<>>} : pos_sale(p, items)
        \/ pos_line(p)
        \/ pos_commit(p)
        \/ pos_storage_failure(p)
        \/ \E items \in ItemLists \cup {<<>>}, token \in Tokens : create_sale(p, items, token)
        \/ create_line(p)
        \/ flush_update(p)
        \/ create_commit(p)
        \/ create_storage_failure(p)
        \/ \E id \in SaleIds \cup {nextSaleId}, r \in BOOLEAN, token \in Tokens :
              delete_sale(p, id, r, token)
        \/ del_line(p)
        \/ del_commit(p)
        \/ \E item \in Enqueued, tick \in Ticks, token \in Tokens :
              add_to_sync_queue(p, item, tick, token)
        \/ \E token \in Tokens : process_sync_queue(p, token)
        \/ sync_line(p)
        \/ sync_commit(p)

Spec == Init /\ [][Next]_vars

(* ---------------- two live commits racing for one product ------------- *)

RaceStock == 5

\* both workers have received a one-line sale of the same product, each for
\* no more than the stock and together for more than it
\* a live sale request past the checks made before its handler
InFlight(op, items) ==
    IF op = "create_sale" THEN Verified(Started(op, items)) ELSE Started(op, items)

RaceInit ==
    \E prod \in Products, s \in 1..RaceStock, q1, q2 \in 1..RaceStock,
       op1, op2 \in {"pos_sale", "create_sale"} :
        /\ q1 <= s /\ q2 <= s /\ q1 + q2 > s
        /\ quantity = [x \in Products |-> IF x = prod THEN s ELSE 0]
        /\ w = [p \in Procs |->
                  IF p = 1 THEN InFlight(op1, <<[product_id |-> prod, quantity |-> q1]>>)
                  ELSE IF p = 2 THEN InFlight(op2, <<[product_id |-> prod, quantity |-> q2]>>)
                  ELSE Fresh]
        /\ sales = {}
        /\ nextSaleId = 1
        /\ queue = <<>>
        /\ lock = [x \in Products |-> 0]
        /\ nreq = MaxRequests
        /\ stock0 = quantity
        /\ price = Catalog

RaceNext ==
    \E p \in Procs :
        \/ pos_line(p)
        \/ pos_commit(p)
        \/ pos_storage_failure(p)
        \/ create_line(p)
        \/ create_commit(p)
        \/ create_storage_failure(p)

RaceSpec == RaceInit /\ [][RaceNext]_vars

(* ------------------- a replay pass over a filled queue ---------------- *)

ReplayLen == 5
ReplayStock == 2

\* a batch of one-line sales queued one after the other
ReplayBatches ==
    {[j \in 1..ReplayLen |->
        NewEntry([transaction_type |-> "sale", payload |-> [items |-> <<lines[j]>>]], j)] :
     lines \in [1..ReplayLen -> [product_id : Products, quantity : 1..MaxQty]]}

\* a short queue of anything a client may have queued, at the same clock
\* reading or at later ones
ReplayShort ==
    {[j \in 1..n |-> NewEntry(ents[j], IF late THEN j ELSE 1)] :
     n \in 1..MaxQueue, ents \in [1..MaxQueue -> Enqueued], late \in BOOLEAN}

\* the queue holds pending entries: a batch that one pass replays, or a
\* short queue beside which two requests arrive (replay passes, live sales)
ReplayInit ==
    /\ \/ /\ queue \in ReplayBatches
          /\ quantity \in [Products -> 0..ReplayStock]
          /\ nreq = MaxRequests - 1
       \/ /\ queue \in ReplayShort
          /\ quantity \in [Products -> 0..MaxStock]
          /\ nreq = MaxRequests - 2
    /\ sales = {}
    /\ nextSaleId = 1
    /\ lock = [prod \in Products |-> 0]
    /\ w = [p \in Procs |-> Fresh]
    /\ stock0 = quantity
    /\ price = Catalog

ReplayNext ==
    \E p \in Procs :
        \/ \E token \in Tokens : process_sync_queue(p, token)
        \/ sync_line(p)
        \/ sync_commit(p)
        \/ \E line \in Lines : pos_sale(p, <<line>>)
        \/ pos_line(p)
        \/ pos_commit(p)

ReplaySpec == ReplayInit /\ [][ReplayNext]_vars

(* ------------------- deleting a committed sale ------------------------ *)

DelStock == 2

\* a sale as a live commit of the lines left it
CommittedSale(items) ==
    NewSale([Fresh EXCEPT !.data = [j \in DOMAIN items |-> ItemData(items[j])],
                          !.total = SoldTotal(items)], 1, 0)

\* one sale is on record and two more requests arrive: deletions, live sales
DelInit ==
    /\ price = Catalog
    /\ quantity \in [Products -> 0..DelStock]
    /\ \E items \in ItemLists :
          /\ \A j \in DOMAIN items : items[j].product_id \in Products
          /\ sales = {CommittedSale(items)}
    /\ nextSaleId = 2
    /\ queue = <<>>
    /\ lock = [prod \in Products |-> 0]
    /\ w = [p \in Procs |-> Fresh]
    /\ nreq = MaxRequests - 2
    /\ stock0 = quantity

DelNext ==
    \E p \in Procs :
        \/ \E id \in SaleIds \cup {nextSaleId}, r \in BOOLEAN, token \in Tokens :
              delete_sale(p, id, r, token)
        \/ del_line(p)
        \/ flush_update(p)
        \/ del_commit(p)
        \/ \E line \in Lines : pos_sale(p, <<line>>)
        \/ pos_line(p)
        \/ pos_commit(p)

DelSpec == DelInit /\ [][DelNext]_vars

(* ---------------- the same lines, sold live or replayed --------------- *)

EquivStock == 2

\* the lines the one queue entry carries
EquivLines == PayloadItems(queue[1].payload)

\* a sale of some lines is queued; one request arrives: a live sale of the
\* same lines through either endpoint, or a replay pass
EquivInit ==
    /\ quantity \in [Products -> 0..EquivStock]
    /\ \E items \in ItemLists :
          queue = <<NewEntry([transaction_type |-> "sale",
                              payload |-> [items |-> items]], 1)>>
    /\ sales = {}
    /\ nextSaleId = 1
    /\ lock = [prod \in Products |-> 0]
    /\ w = [p \in Procs |-> Fresh]
    /\ nreq = MaxRequests - 1
    /\ stock0 = quantity
    /\ price = Catalog

EquivNext ==
    \E p \in Procs :
        \/ pos_sale(p, EquivLines)
        \/ pos_line(p)
        \/ pos_commit(p)
        \/ create_sale(p, EquivLines, "valid")
        \/ create_line(p)
        \/ flush_update(p)
        \/ create_commit(p)
        \/ process_sync_queue(p, "valid")
        \/ sync_line(p)
        \/ sync_commit(p)

EquivSpec == EquivInit /\ [][EquivNext]_vars

(* ------------------ quantities set beside live sales ------------------ *)

\* the quantities and adjustments of a request
SetTo == 0..MaxStock + 1
AdjustBy == {-1, 1}

\* two requests arrive: quantities set or adjusted, live sales
StockInit ==
    /\ quantity \in [Products -> 0..MaxStock]
    /\ sales = {}
    /\ nextSaleId = 1
    /\ queue = <<>>
    /\ lock = [prod \in Products |-> 0]
    /\ w = [p \in Procs |-> Fresh]
    /\ nreq = MaxRequests - 2
    /\ stock0 = quantity
    /\ price = Catalog

StockNext ==
    \E p \in Procs :
        \/ \E prod \in Products \cup {MissingProduct}, q \in SetTo, token \in Tokens :
              update_inventory(p, prod, q, token)
        \/ \E prod \in Products \cup {MissingProduct}, a \in AdjustBy, token \in Tokens :
              adjust_inventory(p, prod, a, token)
        \/ inv_commit(p)
        \/ \E line \in Lines : pos_sale(p, <<line>>)
        \/ pos_line(p)
        \/ pos_commit(p)

StockSpec == StockInit /\ [][StockNext]_vars

(* ------------- replay passes and a replenishment of stock ------------- *)

\* one sale of one unit is queued for a product that may be out of stock;
\* three requests arrive: replay passes, adjustments that add a unit
RetryInit ==
    /\ quantity \in [Products -> 0..MaxStock]
    /\ \E line \in Lines :
          queue = <<NewEntry([transaction_type |-> "sale",
                              payload |-> [items |-> <<line>>]], 1)>>
    /\ sales = {}
    /\ nextSaleId = 1
    /\ lock = [prod \in Products |-> 0]
    /\ w = [p \in Procs |-> Fresh]
    /\ nreq = MaxRequests - 3
    /\ stock0 = quantity
    /\ price = Catalog

RetryNext ==
    \E p \in Procs :
        \/ process_sync_queue(p, "valid")
        \/ sync_line(p)
        \/ sync_commit(p)
        \/ \E prod \in Products : adjust_inventory(p, prod, 1, "valid")
        \/ inv_commit(p)

RetrySpec == RetryInit /\ [][RetryNext]_vars

(* --------------- anything queued, then replayed ----------------------- *)

\* a payload that is not JSON, and a JSON object without items
NotJson == [text |-> "{not json"]
NoItems == [sale_date |-> "2024-05-01T10:00:00"]

\* lines as a client may write them: product_id or quantity absent or 0, a
\* quantity below 0
OddLines == [product_id : {0} \cup Products \cup {MissingProduct},
             quantity : {-1, 0} \cup (1..MaxQty)]

\* a well-formed line of the first product
GoodLine == [product_id |-> 1, quantity |-> 1]

\* sale entries with payloads of every kind
OddEntries ==
    [transaction_type : {"sale"},
     payload : {NotJson, NoItems}
               \cup {[items |-> <<line>>] : line \in OddLines}
               \cup {[items |-> <<GoodLine, line>>] :
                        line \in {l \in OddLines : InvalidItem(l) \/ l.quantity < 0}}]
    \cup [transaction_type : {"refund"}, payload : {[items |-> <<GoodLine>>]}]

\* the queue is empty; requests arrive: entries of every kind are queued and
\* replay passes run
QueueInit ==
    /\ quantity \in [Products -> 0..MaxStock]
    /\ sales = {}
    /\ nextSaleId = 1
    /\ queue = <<>>
    /\ lock = [prod \in Products |-> 0]
    /\ w = [p \in Procs |-> Fresh]
    /\ nreq = 0
    /\ stock0 = quantity
    /\ price = Catalog

QueueNext ==
    \E p \in Procs :
        \/ \E item \in Enqueued \cup OddEntries, tick \in Ticks, token \in Tokens :
              add_to_sync_queue(p, item, tick, token)
        \/ \E token \in Tokens : process_sync_queue(p, token)
        \/ sync_line(p)
        \/ sync_commit(p)

QueueSpec == QueueInit /\ [][QueueNext]_vars

(* ------------------ replay of dated sales ----------------------------- *)

\* a text that is no timestamp
NotADate == "not a date"

\* one-line sales as an offline client dates them: no sale_date, an empty
\* one, a timestamp, a text that is none
DatedPayloads ==
    [items : {<<line>> : line \in [product_id : Products, quantity : {1}]}]
    \cup [items : {<<line>> : line \in [product_id : Products, quantity : {1}]},
          sale_date : Timestamps \cup {"", NotADate}]

DateStock == 2

\* two dated sales are queued; two requests arrive: replay passes, live sales
DateInit ==
    /\ quantity \in [Products -> 0..DateStock]
    /\ \E first \in DatedPayloads, second \in DatedPayloads :
          queue = <<NewEntry([transaction_type |-> "sale", payload |-> first], 1),
                    NewEntry([transaction_type |-> "sale", payload |-> second], 2)>>
    /\ sales = {}
    /\ nextSaleId = 1
    /\ lock = [prod \in Products |-> 0]
    /\ w = [p \in Procs |-> Fresh]
    /\ nreq = MaxRequests - 2
    /\ stock0 = quantity
    /\ price = Catalog

DateNext ==
    \E p \in Procs :
        \/ process_sync_queue(p, "valid")
        \/ sync_line(p)
        \/ sync_commit(p)
        \/ \E prod \in Products : pos_sale(p, <<[product_id |-> prod, quantity |-> 1]>>)
        \/ pos_line(p)
        \/ pos_commit(p)

DateSpec == DateInit /\ [][DateNext]_vars

(* ---------------- prices changed beside live sales -------------------- *)

PriceStock == 2

\* the prices of a request: none that is valid, a lower one, a higher one
NewPrices == {0, 1, 6}

\* sales of one or two lines of one unit
PricedItems == UNION {[1..n -> [product_id : Products \cup {MissingProduct}, quantity : {1}]] :
                      n \in 1..MaxLines}

\* three requests arrive: live sales, changes of a product's price
PriceInit ==
    /\ quantity \in [Products -> 1..PriceStock]
    /\ sales = {}
    /\ nextSaleId = 1
    /\ queue = <<>>
    /\ lock = [prod \in Products |-> 0]
    /\ w = [p \in Procs |-> Fresh]
    /\ nreq = 0
    /\ stock0 = quantity
    /\ price = Catalog

PriceNext ==
    \E p \in Procs :
        \/ \E items \in PricedItems : pos_sale(p, items)
        \/ pos_line(p)
        \/ pos_commit(p)
        \/ pos_storage_failure(p)
        \/ \E prod \in Products \cup {MissingProduct}, new_price \in NewPrices,
              token \in Tokens :
              update_product(p, prod, new_price, token)

PriceSpec == PriceInit /\ [][PriceNext]_vars

(* ------------------------------ claims -------------------------------- *)

\* C1: in every reachable state every inventory quantity is >= 0, whatever
\* the interleaving of live sales, replay passes and deletions, for requests
\* whose lines have positive quantities and may repeat a product.
C1_StockNonNegative == \A prod \in Products : quantity[prod] >= 0

\* C2: of two concurrent live commits on one product, each within the stock
\* and together beyond it, exactly one succeeds, the other is refused for
\* insufficient stock, and the stock ends at s minus the winner's quantity,
\* whichever endpoint each request uses (checked once both have returned
\* without a storage failure).
C2_ExactlyOneWins ==
    (\A p \in {1, 2} : w[p].pc = "idle" /\ w[p].result.code \in {201, 400, 404})
    => \E win, lose \in {1, 2} :
          /\ win # lose
          /\ w[win].result.code = 201
          /\ w[lose].result.code = 400
          /\ w[lose].result.detail = "InsufficientStock"
          /\ Cardinality(sales) = 1
          /\ \A s \in sales, prod \in Products :
                quantity[prod] = stock0[prod] - SoldOf(s.items, prod)

\* a live commit in progress
Live(wr) == wr.op \in {"pos_sale", "create_sale"}

\* C3: a live commit that fails, at whatever line and for whatever reason,
\* changes no quantity and persists no sale: no step of a live commit other
\* than its successful return changes the committed quantities or sales, so
\* the lines validated before the failing one leave no trace.
C3_Atomicity ==
    [][\A p \in Procs :
          (Live(w[p]) /\ w'[p] # w[p] /\ w'[p].result.code # 201)
          => (quantity' = quantity /\ sales' = sales)]_vars

\* a two-line commit has failed at its second line, the first one validated,
\* and another at the durable write
C3_Witness ==
    /\ w[1].result.code \in {400, 404} /\ w[1].result.at = 2
    /\ w[2].result.code = 500

\* the product whose row lock the next step of worker p needs, 0 when none
WantsLock(p) ==
    IF w[p].pc \in {"pos_line", "sync_line"}
       /\ w[p].items # <<>>
       /\ w[p].items[w[p].i].product_id \in Products
       /\ (w[p].pc = "sync_line" =>
              /\ queue[w[p].pending[w[p].k]].transaction_type = "sale"
              /\ Parses(queue[w[p].pending[w[p].k]].payload)
              /\ ~InvalidItem(w[p].items[w[p].i]))
    THEN w[p].items[w[p].i].product_id
    ELSE IF w[p].pc \in {"create_flush", "del_flush"}
            /\ ToLock(p, DirtyProducts(w[p].data)) # {}
    THEN FirstOf(ToLock(p, DirtyProducts(w[p].data)))
    ELSE IF w[p].pc = "inv_flush" /\ w[p].dirty # {}
    THEN FirstOf(w[p].dirty)
    ELSE 0

\* worker p waits for a lock that worker q holds
WaitsFor(p, q) == p # q /\ WantsLock(p) # 0 /\ lock[WantsLock(p)] = q

\* C4: two concurrent commits that name the same two products in opposite
\* orders never deadlock: no reachable state has each of two commits
\* waiting for a lock the other holds.
C4_NoCircularWait == \A p, q \in Procs : ~(WaitsFor(p, q) /\ WaitsFor(q, p))

\* the step in which worker p's replay pass commits
PassCommits(p) == w[p].pc = "sync_commit" /\ w'[p].pc = "idle"

\* the items of a pass that ended with the given status
Ended(wr, status) == {j \in DOMAIN wr.pending : wr.qmem[j].status = status}

\* C5: Replay isolation. When a replay pass commits, every entry that was
\* pending at its start has been attempted: it ends synced or failed, a
\* failed one carries an error message, every entry whose lines could all be
\* served at its turn ends synced, and the reply counts the synced entries
\* as processed and the failed ones as failed.
C5_ReplayIsolation ==
    [][\A p \in Procs : PassCommits(p) =>
          /\ \A j \in DOMAIN w[p].pending :
                LET after == queue'[w[p].pending[j]]
                IN /\ after.status \in {"synced", "failed"}
                   /\ after.status = "failed" => after.error_message # ""
                   /\ w[p].qmem[j].sat => after.status = "synced"
          /\ w'[p].result.processed =
                Cardinality({j \in DOMAIN w[p].pending :
                                queue'[w[p].pending[j]].status = "synced"})
          /\ w'[p].result.failed =
                Cardinality({j \in DOMAIN w[p].pending :
                                queue'[w[p].pending[j]].status = "failed"})]_vars

\* a batch of five was replayed: only the third entry lacked stock
C5_Witness ==
    /\ Len(queue) = ReplayLen
    /\ [e \in 1..ReplayLen |-> queue[e].status]
          = <<"synced", "synced", "failed", "synced", "synced">>
    /\ queue[3].error_message = "Insufficient stock"
    /\ \E p \in Procs : /\ w[p].result.detail = "Sync complete"
                        /\ w[p].result.processed = 4
                        /\ w[p].result.failed = 1

\* the workers inside a replay pass
InPass(p) == w[p].pc \in {"sync_line", "sync_commit"}

\* the items a pass has decided so far
Decided(wr) == {j \in DOMAIN wr.pending : wr.qmem[j].status # "pending"}

\* units of prod the pass sold in its items a .. b
RECURSIVE SyncedUnits(_, _, _, _)
SyncedUnits(wr, a, b, prod) ==
    IF a > b THEN 0
    ELSE (IF wr.qmem[a].status = "synced"
          THEN SoldOf(PayloadItems(queue[wr.pending[a]].payload), prod) ELSE 0)
         + SyncedUnits(wr, a + 1, b, prod)

\* the entry is a sale of nothing but units units of prod
RequestsAll(entry, prod, units) ==
    /\ entry.transaction_type = "sale"
    /\ PayloadItems(entry.payload) # <<>>
    /\ \A j \in DOMAIN PayloadItems(entry.payload) :
          PayloadItems(entry.payload)[j].product_id = prod
    /\ SoldOf(PayloadItems(entry.payload), prod) = units
    /\ units > 0

\* C6: Replay ordering. A replay pass takes the pending entries in ascending
\* created_at order, one after the other; the stock check of a later entry
\* goes by the quantity an earlier synced entry left; and of two consecutive
\* entries that each request all remaining units of a product, the earlier
\* ends synced and the later fails for insufficient stock.
C6_ReplayOrder ==
    \A p \in Procs : InPass(p) =>
        LET wr == w[p]
            entry(j) == queue[wr.pending[j]]
        IN /\ \A a, b \in DOMAIN wr.pending :
                 entry(a).created_at < entry(b).created_at => a < b
           /\ Decided(wr) = {j \in DOMAIN wr.pending :
                                j < wr.k \/ wr.pc = "sync_commit"}
           /\ \A a, b \in Decided(wr), prod \in Products :
                 (/\ a < b
                  /\ wr.qmem[a].status = "synced"
                  /\ SoldOf(PayloadItems(entry(a).payload), prod) > 0)
                 => wr.qmem[b].view[prod]
                       = wr.qmem[a].view[prod] - SyncedUnits(wr, a, b - 1, prod)
           /\ \A a, b \in Decided(wr), prod \in Products :
                 (/\ b = a + 1
                  /\ RequestsAll(entry(a), prod, wr.qmem[a].view[prod])
                  /\ RequestsAll(entry(b), prod, wr.qmem[a].view[prod]))
                 => /\ wr.qmem[a].status = "synced"
                    /\ wr.qmem[b].status = "failed"
                    /\ wr.qmem[b].error_message = "Insufficient stock"

\* two entries asked for the last unit: the earlier one got it
C6_Witness ==
    /\ Len(queue) = 2
    /\ queue[1].created_at < queue[2].created_at
    /\ \E prod \in Products : /\ RequestsAll(queue[1], prod, stock0[prod])
                              /\ RequestsAll(queue[2], prod, stock0[prod])
    /\ queue[1].status = "synced"
    /\ queue[2].status = "failed"
    /\ queue[2].error_message = "Insufficient stock"
    /\ \E p \in Procs : w[p].result.detail = "Sync complete" /\ w[p].result.processed = 1

\* C7: Idempotent terminal state. Once a queue entry is synced, no step
\* changes its status and no step adds another sale for it.
C7_SyncedIsTerminal ==
    [][\A e \in DOMAIN queue : queue[e].status = "synced" =>
          /\ queue'[e].status = "synced"
          /\ ~\E s \in sales' \ sales : s.src = e]_vars

\* the sum of the subtotals of a sale's lines
RECURSIVE SumOfSubtotals(_)
SumOfSubtotals(items) ==
    IF items = <<>> THEN 0 ELSE items[1].subtotal + SumOfSubtotals(Tail(items))

\* C8: Total correctness. Every persisted sale, committed live or by replay,
\* has total_amount equal to the sum of its lines' subtotals, and every
\* line's subtotal equals its unit_price times its quantity.
C8_TotalCorrect ==
    \A s \in sales :
        /\ s.total_amount = SumOfSubtotals(s.items)
        /\ \A j \in DOMAIN s.items :
              s.items[j].subtotal = s.items[j].unit_price * s.items[j].quantity

\* a live sale of two lines and a replayed sale are on record
C8_Witness ==
    /\ \E s \in sales : s.src = 0 /\ Len(s.items) = 2
    /\ \E s \in sales : s.src # 0

\* the step in which worker p's deletion of a sale still on record commits
DeleteCommits(p) ==
    /\ w[p].pc = "del_flush"
    /\ w'[p].pc = "idle"
    /\ w[p].sale_id \in SaleIds

\* C9: Reversal. A deletion with restore_inventory adds each line's quantity
\* back to its product's stock, a deletion without it leaves the stock as it
\* is, and either way the sale is removed.
C9_Reversal ==
    [][\A p \in Procs : DeleteCommits(p) =>
          /\ \A prod \in Products :
                quantity'[prod] = quantity[prod]
                    + (IF w[p].restore THEN SoldOf(w[p].items, prod) ELSE 0)
          /\ w[p].sale_id \notin {s.id : s \in sales'}]_vars

\* a step worker p can take by itself
Step(p) ==
    \/ pos_line(p) \/ pos_commit(p) \/ pos_storage_failure(p)
    \/ create_line(p) \/ flush_update(p) \/ create_commit(p)
    \/ create_storage_failure(p)
    \/ del_line(p) \/ del_commit(p)
    \/ inv_commit(p)
    \/ sync_line(p) \/ sync_commit(p)

\* C10: Every commit attempt terminates. A started commit is never left
\* waiting on others: at any moment it can go on, or fail.
C10_NeverBlocked ==
    \A p \in Procs : w[p].pc # "idle" => ENABLED Step(p)

\* the step is worker p's: it takes a request or goes on with its own
Acts(p) == (nreq' # nreq /\ Accepts(p)) \/ (nreq' = nreq /\ w'[p] # w[p])

\* C11: no mutating operation changes any state unless the request's token
\* has been verified: every step that changes the stock, the sales or the
\* queue is a step of a request whose token verify_token has accepted.
C11_VerifiedBeforeMutation ==
    [][<<quantity, sales, queue>>' # <<quantity, sales, queue>>
          => \E p \in Procs : /\ Acts(p)
                              /\ w[p].verified \/ w'[p].verified]_vars

\* every line names a product on record and asks for no more than in stock
Servable(items, stock) ==
    \A j \in DOMAIN items :
        /\ items[j].product_id \in Products
        /\ items[j].quantity <= stock[items[j].product_id]

\* what a commit of the lines leaves: the stock less the lines, and one sale
\* of these lines with their total; or nothing at all
Committed(items) ==
    /\ quantity = [prod \in Products |-> stock0[prod] - SoldOf(items, prod)]
    /\ \E s \in sales :
          /\ sales = {s}
          /\ s.items = [j \in DOMAIN items |-> ItemData(items[j])]
          /\ s.total_amount = SoldTotal(items)
NothingDone == quantity = stock0 /\ sales = {}

\* C12: live and replayed sales have the same commitment semantics. From any
\* stock and for any lines, the live commit (either endpoint) succeeds
\* exactly when the replay of an entry with these lines ends synced: both do
\* exactly when every line is servable; on success both leave the same
\* stock, lines and total, on failure both leave stock and sales untouched.
C12_LiveEqualsReplay ==
    \A p \in Procs :
        /\ (w[p].pc = "idle" /\ w[p].result.code \in {201, 400, 404})
              => /\ w[p].result.code = 201 <=> Servable(EquivLines, stock0)
                 /\ IF w[p].result.code = 201
                    THEN Committed(EquivLines) ELSE NothingDone
        /\ (w[p].pc = "idle" /\ w[p].result.detail = "Sync complete")
              => /\ queue[1].status = "synced" <=> Servable(EquivLines, stock0)
                 /\ queue[1].status \in {"synced", "failed"}
                 /\ IF queue[1].status = "synced"
                    THEN Committed(EquivLines) ELSE NothingDone

\* a queued sale of two lines has been replayed and committed
C12_Witness ==
    /\ Len(queue) = 1
    /\ queue[1].status = "synced"
    /\ Len(EquivLines) = 2
    /\ Committed(EquivLines)

\* the operations that may change a quantity: sale commits, live or
\* replayed, and sale deletions
StockWriters == {"pos_sale", "create_sale", "process_sync_queue", "delete_sale"}

\* C13: every change of a quantity is made by a sale commit (live or
\* replayed) or a sale deletion that holds the row's exclusive lock, and has
\* held it since it read the quantity; nothing else changes a quantity.
C13_ChangesUnderLock ==
    [][\A prod \in Products : quantity'[prod] # quantity[prod]
          => \E p \in Procs : /\ Acts(p)
                              /\ w[p].op \in StockWriters
                              /\ lock[prod] = p]_vars

\* C14: a failed queue entry is terminal. Once an entry is failed no step
\* changes its status and no step adds a sale for it, whatever has happened
\* to the stock it lacked.
C14_FailedIsTerminal ==
    [][\A e \in DOMAIN queue : queue[e].status = "failed" =>
          /\ queue'[e].status = "failed"
          /\ ~\E s \in sales' \ sales : s.src = e]_vars

\* C15: a live commit with a line that names a product not on record ends
\* with 404 wherever that line stands and whatever the stock of the other
\* lines, and changes nothing; 400 for insufficient stock is the answer only
\* when the product of every line exists.
C15_NotFoundFirst ==
    [][\A p \in Procs :
          (/\ Live(w[p])
           /\ w'[p].pc = "idle"
           /\ w'[p].result.code # 500
           /\ \E j \in DOMAIN w[p].items : w[p].items[j].product_id \notin Products)
          => /\ w'[p].result.code = 404
             /\ quantity' = quantity
             /\ sales' = sales]_vars

LacksField(line) == line.product_id = 0 \/ line.quantity = 0

\* a sale entry whose payload is not JSON or has a line lacking a field
Malformed(entry) ==
    /\ entry.transaction_type = "sale"
    /\ \/ ~Parses(entry.payload)
       \/ \E j \in DOMAIN PayloadItems(entry.payload) :
             LacksField(PayloadItems(entry.payload)[j])

\* worker p's pass decides its current item in this step
Turned(p) ==
    /\ w[p].pc = "sync_line"
    /\ w'[p].k # w[p].k \/ w'[p].pc = "sync_commit"

\* C17: a queue entry with a malformed payload (not parseable, or a line
\* lacking product_id or quantity) is marked failed with a non-empty error
\* message; its turn changes no quantity and adds no sale, and the pass goes
\* on with the next entry; at the pass's commit the entry is failed and no
\* sale exists for it.
C17_MalformedFails ==
    [][\A p \in Procs :
          /\ (Turned(p) /\ Malformed(queue[w[p].pending[w[p].k]]))
                => /\ w'[p].qmem[w[p].k].status = "failed"
                   /\ w'[p].qmem[w[p].k].error_message # ""
                   /\ w'[p].dirty = w[p].dirty
                   /\ w'[p].newsales = w[p].newsales
                   /\ \A prod \in w[p].loaded : w'[p].inv[prod] = w[p].inv[prod]
                   /\ UNCHANGED <<quantity, sales>>
                   /\ IF w[p].k < Len(w[p].pending)
                      THEN w'[p].pc = "sync_line" /\ w'[p].k = w[p].k + 1
                      ELSE w'[p].pc = "sync_commit"
          /\ PassCommits(p)
                => \A j \in DOMAIN w[p].pending :
                      Malformed(queue[w[p].pending[j]])
                      => /\ queue'[w[p].pending[j]].status = "failed"
                         /\ queue'[w[p].pending[j]].error_message # ""
                         /\ ~\E s \in sales' \ sales : s.src = w[p].pending[j]]_vars

\* an unparseable entry and an entry lacking a quantity have failed, each
\* with its message, and a pass has gone on to sync the entry after one
C17_Witness ==
    /\ Len(queue) = 2
    /\ \/ /\ queue[1].payload = NotJson
          /\ queue[1].error_message = "Expecting value"
       \/ /\ queue[1].payload = [items |-> <<GoodLine, [product_id |-> 1, quantity |-> 0]>>]
          /\ queue[1].error_message = "Invalid sale item format"
    /\ queue[1].status = "failed"
    /\ queue[2].status = "synced"
    /\ \E s \in sales : s.src = 2

\* C18: every line of every persisted sale has quantity > 0, whether the
\* sale was committed live or made by replaying a queue payload.
C18_PositiveQuantities ==
    \A s \in sales : \A j \in DOMAIN s.items : s.items[j].quantity > 0

\* C19: the queue is an append-only audit trail. No step removes an entry or
\* changes an entry's transaction_type, payload or created_at; status,
\* synced_at and error_message change only in the commit of a replay pass.
C19_AppendOnly ==
    [][/\ Len(queue') >= Len(queue)
       /\ \A e \in DOMAIN queue :
             /\ queue'[e].transaction_type = queue[e].transaction_type
             /\ queue'[e].payload = queue[e].payload
             /\ queue'[e].created_at = queue[e].created_at
             /\ queue'[e] # queue[e] => \E p \in Procs : PassCommits(p)]_vars

\* two entries were queued and a pass has synced one and failed the other
C19_Witness ==
    /\ Len(queue) = 2
    /\ {queue[1].status, queue[2].status} = {"synced", "failed"}
    /\ queue[1].created_at <= queue[2].created_at

\* C20: enqueue appends exactly one entry, pending, with synced_at and
\* error_message unset, whatever the transaction_type and the payload, and
\* changes no quantity, no sale and no entry already queued.
C20_EnqueueAppends ==
    [][\A p \in Procs :
          (Acts(p) /\ nreq' # nreq /\ w'[p].result.code = 201 /\ w'[p].result.detail = "queued")
          => /\ Len(queue') = Len(queue) + 1
             /\ SubSeq(queue', 1, Len(queue)) = queue
             /\ queue'[Len(queue')].status = "pending"
             /\ queue'[Len(queue')].synced_at = 0
             /\ queue'[Len(queue')].error_message = ""
             /\ UNCHANGED <<quantity, sales>>]_vars

\* an entry of an unknown type and an entry that is not JSON are queued
C20_Witness ==
    /\ Len(queue) = 2
    /\ queue[1].transaction_type = "inventory_update"
    /\ queue[2].payload = NotJson
    /\ queue[1].status = "pending" /\ queue[2].status = "pending"

\* worker p answers a replay request in this step: at once when nothing is
\* pending, at the commit of the pass otherwise
PassReturns(p) ==
    \/ PassCommits(p)
    \/ /\ nreq' # nreq /\ Accepts(p)
       /\ w'[p].pc = "idle" /\ w'[p].verified
       /\ w'[p].result.code = 200

\* the entries p's request found pending
FoundPending(p) == IF w[p].op = "process_sync_queue" THEN DOMAIN w[p].pending ELSE {}

\* C21: every replay pass, a pass over a queue without pending entry
\* included, answers "Sync complete. Processed: P, Failed: F", P the number
\* of entries it marked synced, F the number it marked failed, P + F the
\* number of entries pending when it began; none of them is pending when the
\* pass returns.
C21_Tally ==
    [][\A p \in Procs : PassReturns(p) =>
          /\ w'[p].result.detail = "Sync complete"
          /\ w'[p].result.processed = Cardinality(Ended(w[p], "synced"))
          /\ w'[p].result.failed = Cardinality(Ended(w[p], "failed"))
          /\ w'[p].result.processed + w'[p].result.failed = Cardinality(FoundPending(p))
          /\ \A j \in FoundPending(p) : queue'[w[p].pending[j]].status # "pending"]_vars

\* the payload carries an offline timestamp
CarriesTimestamp(payload) ==
    "sale_date" \in DOMAIN payload /\ payload.sale_date \in Timestamps

\* C22: the sale_date of a sale made by replay is the offline timestamp of
\* the entry's payload when it carries one; the sale_date of a live sale, and
\* of a replayed sale whose payload carries none, is the time the sale is
\* written.
C22_SaleDate ==
    \A s \in sales :
        IF s.src # 0 /\ CarriesTimestamp(queue[s.src].payload)
        THEN s.sale_date = queue[s.src].payload.sale_date
        ELSE s.sale_date = Utcnow

\* a pass has made a sale dated by its payload and a sale whose payload has
\* an empty sale_date
C22_Witness ==
    \E s, t \in sales :
        /\ s.src # 0 /\ CarriesTimestamp(queue[s.src].payload)
        /\ s.sale_date \in Timestamps
        /\ t.src # 0 /\ "sale_date" \in DOMAIN queue[t.src].payload
        /\ queue[t.src].payload.sale_date = ""

\* worker p's sale takes up one more line in this step
TakesLine(p) ==
    /\ Live(w[p]) /\ w'[p].op = w[p].op
    /\ Len(w'[p].data) = Len(w[p].data) + 1

PassEnds(p) == InPass(p) /\ w'[p].pc = "idle"

\* C24: each replayed entry is its own atomic unit. Once a pass has
\* processed an entry successfully, the entry's sale, its deductions and its
\* synced status stand whatever happens to the later entries of the pass, and
\* no error of a later entry leaves the pass as an exception: when the pass
\* returns, it returns its tally, and every entry it processed successfully is
\* synced and has its sale.
C24_EntryAtomic ==
    [][\A p \in Procs : PassEnds(p) =>
          /\ w'[p].result.code = 200
          /\ \A j \in DOMAIN w[p].pending :
                w[p].qmem[j].status = "synced"
                => /\ queue'[w[p].pending[j]].status = "synced"
                   /\ \E s \in sales' : s.src = w[p].pending[j]]_vars

\* the sales made by replaying entry e
SalesOf(e) == {s \in sales : s.src = e}

\* C25: when two replay passes run at once and see the same pending
\* entries, each entry is applied at most once: at most one sale is made for
\* it (and so its stock is deducted at most once).
C25_AppliedOnce == \A e \in DOMAIN queue : Cardinality(SalesOf(e)) <= 1

\* the queue row names the sale made from it
Linked(e, s) == "sale_id" \in DOMAIN queue[e] /\ queue[e].sale_id = s.id

\* C26: entry/sale correspondence. In every reachable state an entry is
\* synced if and only if exactly one sale was made by replaying it; a synced
\* entry has synced_at set and is linked to that sale; a pending or failed
\* entry has synced_at unset and no sale.
C26_EntrySaleCorrespondence ==
    \A e \in DOMAIN queue :
        /\ queue[e].status = "synced" <=> Cardinality(SalesOf(e)) = 1
        /\ queue[e].status = "synced"
              => /\ queue[e].synced_at # 0
                 /\ \A s \in SalesOf(e) : Linked(e, s)
        /\ queue[e].status \in {"pending", "failed"}
              => /\ queue[e].synced_at = 0
                 /\ SalesOf(e) = {}

\* C27: locks are scoped to the operation that took them. In every
\* reachable state no inventory row's lock is held by an operation that has
\* returned, whether it ended by commit, by a business error or by a storage
\* failure; a commit that fails at a later line has released the locks of its
\* earlier lines.
C27_LocksScoped ==
    \A prod \in Products : lock[prod] # 0 => w[lock[prod]].pc # "idle"

\* one sale was refused at its second line, after its first line had taken
\* a lock, while the other sale is under way and holds a lock
C27_Witness ==
    \E p, q \in Procs :
        /\ w[p].pc = "idle"
        /\ w[p].result.code \in {400, 404}
        /\ w[p].result.at = 2
        /\ w[q].pc \in {"pos_line", "pos_commit"}
        /\ \E prod \in Products : lock[prod] = q

\* worker p is carrying out a commit: a live sale or a replay pass
Committing(p) == w[p].op \in {"pos_sale", "create_sale", "process_sync_queue"}

\* the products named in the lines of p's commit
ProductsOf(p) ==
    IF w[p].op = "process_sync_queue"
    THEN UNION {{PayloadItems(queue[w[p].pending[j]].payload)[i].product_id :
                   i \in DOMAIN PayloadItems(queue[w[p].pending[j]].payload)} :
                j \in DOMAIN w[p].pending}
    ELSE {w[p].items[i].product_id : i \in DOMAIN w[p].items}

\* C28: commits on disjoint product sets do not interfere. A commit holds
\* and waits for locks only on products named in its own lines, so two
\* concurrent commits with no product in common never wait for each other,
\* and each can go on whenever no third request is in its way.
C28_DisjointCommits ==
    \A p \in Procs : Committing(p) =>
        /\ \A prod \in Products : lock[prod] = p => prod \in ProductsOf(p)
        /\ WantsLock(p) # 0 => WantsLock(p) \in ProductsOf(p)
        /\ \A q \in Procs \ {p} :
              (Committing(q) /\ ProductsOf(p) \cap ProductsOf(q) = {})
              => /\ ~WaitsFor(p, q)
                 /\ ENABLED Step(p) \/ \E r \in Procs \ {p, q} : WaitsFor(p, r)

\* two commits with no product in common are under way, each holding the
\* lock of its product
C28_Witness ==
    \E p, q \in Procs :
        /\ p # q /\ Committing(p) /\ Committing(q)
        /\ ProductsOf(p) \cap ProductsOf(q) = {}
        /\ \E prod \in Products : lock[prod] = p
        /\ \E prod \in Products : lock[prod] = q

\* worker p's live commit returns from its durable write in this step
WriteEnds(p) == w[p].pc \in {"pos_commit", "create_flush"} /\ w'[p].pc = "idle"

\* C29: a storage failure during the durable write of a live commit is
\* reported to the caller as a server error, never as a successful sale, and
\* leaves every quantity unchanged and no sale persisted: a live commit
\* leaves its write either with its sale persisted and the answer 201, or
\* with nothing changed and the answer 500.
C29_StorageFailure ==
    [][\A p \in Procs : WriteEnds(p) =>
          IF sales' # sales
          THEN w'[p].result.code = 201
          ELSE /\ w'[p].result.code = 500
               /\ quantity' = quantity]_vars

\* a live commit has ended in a storage failure and nothing is changed
C29_Witness ==
    \E p \in Procs :
        /\ w[p].pc = "idle"
        /\ w[p].result.code = 500
        /\ w[p].result.detail = "StorageFailure"
        /\ quantity = stock0
        /\ sales = {}

\* units of prod over the lines of the sales in S
RECURSIVE SoldIn(_, _)
SoldIn(S, prod) ==
    IF S = {} THEN 0
    ELSE LET s == CHOOSE s \in S : TRUE
         IN SoldOf(s.items, prod) + SoldIn(S \ {s}, prod)

\* C30: stock conservation. For each product, across any interleaving of
\* live commits, replay passes and deletions that restore the stock, the
\* current stock plus the product's quantities over all persisted sale lines
\* equals the initial stock: no committed sale's deduction is lost and none
\* is applied twice.
C30_StockConservation ==
    \A prod \in Products : quantity[prod] + SoldIn(sales, prod) = stock0[prod]

\* worker p's pos_sale commits its sale in this step
PosCommits(p) == w[p].pc = "pos_commit" /\ w'[p].result.code = 201

\* worker p's pass marks its current entry synced in this step
EntrySynced(p) == Turned(p) /\ w'[p].qmem[w[p].k].status = "synced"

\* C31: when a sale has several lines of one product, the commit, live or
\* replayed, succeeds only if the sum of those lines' quantities is at most
\* the product's available stock (the quantity under the commit's lock).
C31_RepeatedProduct ==
    [][\A p \in Procs :
          /\ PosCommits(p)
                => \A prod \in Products : SoldOf(w[p].items, prod) <= quantity[prod]
          /\ EntrySynced(p)
                => \A prod \in Products :
                      SoldOf(w[p].items, prod) <= w'[p].qmem[w[p].k].view[prod]]_vars

\* C32: a pending entry whose transaction_type is not "sale" is marked
\* failed with an error message naming the unknown type and is counted in
\* failed, not in processed; its turn changes no quantity and adds no sale,
\* and the pass goes on with the next entry; at the pass's commit the entry
\* is failed with that message and no sale exists for it.
C32_UnknownType ==
    [][\A p \in Procs :
          /\ (Turned(p) /\ queue[w[p].pending[w[p].k]].transaction_type # "sale")
                => /\ w'[p].qmem[w[p].k].status = "failed"
                   /\ w'[p].qmem[w[p].k].error_message
                         = "Unknown transaction type: "
                           \o queue[w[p].pending[w[p].k]].transaction_type
                   /\ w'[p].failed = w[p].failed + 1
                   /\ w'[p].processed = w[p].processed
                   /\ w'[p].dirty = w[p].dirty
                   /\ w'[p].newsales = w[p].newsales
                   /\ \A prod \in w[p].loaded : w'[p].inv[prod] = w[p].inv[prod]
                   /\ UNCHANGED <<quantity, sales>>
                   /\ IF w[p].k < Len(w[p].pending)
                      THEN w'[p].pc = "sync_line" /\ w'[p].k = w[p].k + 1
                      ELSE w'[p].pc = "sync_commit"
          /\ PassCommits(p)
                => \A j \in DOMAIN w[p].pending :
                      queue[w[p].pending[j]].transaction_type # "sale"
                      => /\ queue'[w[p].pending[j]].status = "failed"
                         /\ queue'[w[p].pending[j]].error_message
                               = "Unknown transaction type: "
                                 \o queue[w[p].pending[j]].transaction_type
                         /\ w'[p].result.failed >= 1
                         /\ ~\E s \in sales' \ sales : s.src = w[p].pending[j]]_vars

\* a refund entry with the lines of a sale has failed under its type's name
\* and the pass has gone on to sync the sale queued after it
C32_Witness ==
    /\ Len(queue) = 2
    /\ queue[1].transaction_type = "refund"
    /\ queue[1].status = "failed"
    /\ queue[1].error_message = "Unknown transaction type: refund"
    /\ queue[2].status = "synced"
    /\ \E s \in sales : s.src = 2
    /\ ~\E s \in sales : s.src = 1

\* worker p's adjustment is written in this step
AdjustCommits(p) ==
    /\ w[p].op = "adjust_inventory"
    /\ w[p].pc = "inv_flush"
    /\ w'[p].pc = "idle"

\* C33: a manual adjustment whose result would be negative is rejected and
\* leaves the quantity as it is; an accepted adjustment sets the quantity to
\* exactly the quantity plus the adjustment, and never below 0.
C33_Adjustment ==
    [][\A p \in Procs :
          /\ (nreq' # nreq /\ Accepts(p) /\ w'[p].result.detail = "NegativeInventory")
                => quantity' = quantity
          /\ AdjustCommits(p)
                => \A prod \in w[p].loaded :
                      /\ quantity'[prod] = quantity[prod] + (w[p].inv[prod] - w[p].was)
                      /\ quantity'[prod] >= 0]_vars

================================================================================
